---- MODULE Spec2Model ----
(***************************************************************************)
(* TrustSpace: the JSON-file datastore (utils/database.py, its older copy  *)
(* database-implementation.py), the auth service (utils/auth.py) and the   *)
(* verification-session bookkeeping (video-verification.py).               *)
(*                                                                         *)
(* A file is a sequence of tokens stored in an inode; a directory maps     *)
(* paths to inodes.  json.dump / json.load are json_dump / json_load.      *)
(* Handlers exist at two granularities: as whole calls (one action per     *)
(* call, the single-threaded request model of the UI) and as processes     *)
(* stepping through their system calls (open, write, replace), which is    *)
(* what an interruption or a second writer observes.                       *)
(***************************************************************************)
EXTENDS Integers, Sequences, FiniteSets, TLC

VARIABLES
    fs,        \* the data directory: [dir: path -> inode or 0, disk: inode -> tokens]
    procs,     \* per process: position in its handler, open descriptor, locals
    now,       \* the wall clock, in hours
    uuids,     \* number of identifiers uuid.uuid4() has handed out
    issued,    \* tokens issued by verify_user, with their time of issue
    ret        \* the last completed call: name, arguments, return value

vars == <<fs, procs, now, uuids, issued, ret>>

-----------------------------------------------------------------------------
(* Bounds of the model *)

NumInodes == 8
MaxClock == 36
TickHours == 12
MaxTokens == 1
MaxUuids == 2
MaxCalls == 2
MaxImages == 2

-----------------------------------------------------------------------------
(* Paths *)

\* Python None, and the False of a field that later holds a string
None == "<None>"
PyFalse == "False"

USERS_FILE == "data/users.json"
PROPERTIES_FILE == "data/properties.json"
BOOKINGS_FILE == "data/bookings.json"
REVIEWS_FILE == "data/reviews.json"
SESSIONS_FILE == "data/verification_sessions.json"

Files == {USERS_FILE, PROPERTIES_FILE, BOOKINGS_FILE, REVIEWS_FILE, SESSIONS_FILE}

\* line 36 naming the target itself
temp_file_is_target(file_path) == file_path

temp_file(file_path) ==
    CASE file_path = USERS_FILE -> "data/users.json.tmp"
      [] file_path = PROPERTIES_FILE -> "data/properties.json.tmp"
      [] file_path = BOOKINGS_FILE -> "data/bookings.json.tmp"
      [] file_path = REVIEWS_FILE -> "data/reviews.json.tmp"
      [] file_path = SESSIONS_FILE -> "data/verification_sessions.json.tmp"

Paths == Files \cup {temp_file(f) : f \in Files}

NoInode == 0
Inodes == 1..NumInodes

-----------------------------------------------------------------------------
(* JSON text.  A collection is written as "[", one token per record, "]". *)

LBracket == <<"[">>
RBracket == <<"]">>
Hole == <<"\\0">>
RecTok(r) == <<"rec", r>>

json_dump(data) ==
    <<LBracket>> \o [i \in 1..Len(data) |-> RecTok(data[i])] \o <<RBracket>>

WellFormed(text) ==
    /\ Len(text) >= 2
    /\ text[1] = LBracket
    /\ text[Len(text)] = RBracket
    /\ \A i \in 2..(Len(text) - 1) : text[i][1] = "rec"

\* json.load: the collection, or JSONDecodeError
json_load(text) ==
    IF WellFormed(text)
    THEN [ok |-> TRUE, data |-> [i \in 1..(Len(text) - 2) |-> text[i + 1][2]]]
    ELSE [ok |-> FALSE, data |-> <<>>]

-----------------------------------------------------------------------------
(* The file system *)

Exists(w, path) == w.dir[path] # NoInode

Content(w, path) == w.disk[w.dir[path]]

Linked(w) == {w.dir[p] : p \in Paths} \ {NoInode}

\* an inode that is neither linked nor open is gone
Reclaim(w, held) ==
    [w EXCEPT !.disk = [i \in Inodes |->
        IF i \in Linked(w) \cup held THEN w.disk[i] ELSE <<>>]]

FreeInode(w, held) ==
    CHOOSE i \in Inodes :
        /\ i \notin Linked(w) \cup held
        /\ \A j \in Inodes : j < i => j \in Linked(w) \cup held

HasFreeInode(w, held) == \E i \in Inodes : i \notin Linked(w) \cup held

\* open(path, 'w'): truncate the file, or create it
open_w(w, path, held) ==
    IF Exists(w, path)
    THEN [w |-> [w EXCEPT !.disk[w.dir[path]] = <<>>], fd |-> w.dir[path]]
    ELSE LET i == FreeInode(w, held)
         IN [w |-> [w EXCEPT !.dir[path] = i, !.disk[i] = <<>>], fd |-> i]

\* f.write at the descriptor's offset
write_at(w, fd, off, toks) ==
    LET old == w.disk[fd]
        end == off + Len(toks)
        len == IF end > Len(old) THEN end ELSE Len(old)
    IN [w EXCEPT !.disk[fd] = [i \in 1..len |->
            IF i > off /\ i <= end THEN toks[i - off]
            ELSE IF i <= Len(old) THEN old[i]
            ELSE Hole]]

\* os.replace(src, dst), src exists
replace(w, src, dst) ==
    [w EXCEPT !.dir[dst] = w.dir[src], !.dir[src] = NoInode]

\* a whole open-write-close of path with no other process in between
write_file(w, path, toks) ==
    LET o == open_w(w, path, {})
    IN write_at(o.w, o.fd, 0, toks)

\* the collection a reader of path gets: the parsed file, else nothing
Stored(w, path) ==
    IF Exists(w, path) /\ WellFormed(Content(w, path))
    THEN json_load(Content(w, path)).data
    ELSE <<>>

\* the file at path is not a torn one
Intact(w, path) == Exists(w, path) => WellFormed(Content(w, path))

-----------------------------------------------------------------------------
(* The Atomic Store, one call as a whole (utils/database.py 17-48).        *)
(* A call is given the faults the operating system answers its attempts    *)
(* with: plan[a] is "none", or the statement of attempt a that raises.     *)

max_retries == 5

Faults == {"open", "write", "replace"}

\* attempts 1..k raise at statement f, the later ones do not
FailFirst(k, f) == [a \in 1..max_retries |-> IF a <= k THEN f ELSE "none"]

\* every attempt raises: at the rename, at the open, and last at the write
FailAll ==
    [a \in 1..max_retries |->
        IF a = max_retries THEN "write"
        ELSE IF a = max_retries - 1 THEN "open" ELSE "replace"]

FaultPlans == {FailFirst(0, "open"), FailAll}

NoFault == [a \in 1..max_retries |-> "none"]

\* load_data without the write of lines 24-25
load_data_no_create(w, file_path) ==
    IF Exists(w, file_path) /\ json_load(Content(w, file_path)).ok
    THEN [data |-> json_load(Content(w, file_path)).data, w |-> w]
    ELSE [data |-> <<>>, w |-> w]

load_data(w, file_path) ==
    IF Exists(w, file_path) /\ json_load(Content(w, file_path)).ok
    THEN [data |-> json_load(Content(w, file_path)).data, w |-> w]
    ELSE [data |-> <<>>, w |-> write_file(w, file_path, json_dump(<<>>))]

\* save_attempt dumping the empty list whatever the data
save_attempt_empty(w, data, file_path, fault) ==
    IF fault = "open" THEN [ok |-> FALSE, w |-> w]
    ELSE LET o == open_w(w, temp_file(file_path), {})
             torn == write_at(o.w, o.fd, 0, <<LBracket>>)
             full == write_at(o.w, o.fd, 0, json_dump(<<>>))
         IN IF fault = "write" THEN [ok |-> FALSE, w |-> torn]
            ELSE IF fault = "replace" THEN [ok |-> FALSE, w |-> full]
            ELSE [ok |-> TRUE,
                  w |-> Reclaim(replace(full, temp_file(file_path), file_path), {})]

\* the body of the retry loop: lines 35-42, an exception is ok = FALSE
save_attempt(w, data, file_path, fault) ==
    IF fault = "open" THEN [ok |-> FALSE, w |-> w]
    ELSE LET o == open_w(w, temp_file(file_path), {})
             torn == write_at(o.w, o.fd, 0, <<LBracket>>)
             full == write_at(o.w, o.fd, 0, json_dump(data))
         IN IF fault = "write" THEN [ok |-> FALSE, w |-> torn]
            ELSE IF fault = "replace" THEN [ok |-> FALSE, w |-> full]
            ELSE [ok |-> TRUE,
                  w |-> Reclaim(replace(full, temp_file(file_path), file_path), {})]

RECURSIVE save_loop(_, _, _, _, _)
save_loop(w, data, file_path, plan, attempt) ==
    LET a == save_attempt(w, data, file_path, plan[attempt + 1])
    IN IF a.ok THEN [ok |-> TRUE, w |-> a.w, attempts |-> attempt + 1]
       ELSE IF attempt < max_retries - 1
            THEN save_loop(a.w, data, file_path, plan, attempt + 1)
            ELSE [ok |-> FALSE, w |-> a.w, attempts |-> attempt + 1]

save_data(w, data, file_path, plan) == save_loop(w, data, file_path, plan, 0)

\* with open(path, 'w') as f: json.dump(data, f); an exception is raised = TRUE
dump_in_place(w, data, path, fault) ==
    IF fault = "open" THEN [raised |-> TRUE, w |-> w]
    ELSE IF fault = "write"
         THEN [raised |-> TRUE, w |-> write_file(w, path, <<LBracket>>)]
         ELSE [raised |-> FALSE, w |-> write_file(w, path, json_dump(data))]

-----------------------------------------------------------------------------
(* Processes: a call of save_data, or of a handler, one system call a step *)

Idle == [pc |-> "idle", op |-> "none", path |-> BOOKINGS_FILE, data |-> <<>>,
         fd |-> NoInode, off |-> 0, attempt |-> 0, calls |-> 0,
         prev |-> <<>>]

Held(ps) == {ps[p].fd : p \in DOMAIN ps} \ {NoInode}

\* what the file at path holds, for comparison: nothing, or its text
Snapshot(w, path) == IF Exists(w, path) THEN <<Content(w, path)>> ELSE <<>>

Opaque == {[id |-> "a"], [id |-> "b"]}

SaveInputs == {<<>>} \cup {<<r>> : r \in Opaque} \cup {<<r, s>> : r, s \in Opaque}

\* the caller enters save_data(data, file_path)
StartSave(p, data, file_path) ==
    /\ procs[p].pc = "idle"
    /\ procs[p].calls < MaxCalls
    /\ procs' = [procs EXCEPT ![p] =
            [@ EXCEPT !.pc = "tmp_open", !.op = "save_data", !.path = file_path,
                      !.data = data, !.attempt = 0, !.calls = @ + 1,
                      !.prev = Snapshot(fs, file_path)]]
    /\ UNCHANGED <<fs, now, uuids, issued, ret>>

\* line 37: open(temp_file, 'w')
TmpOpen(p) ==
    /\ procs[p].pc = "tmp_open"
    /\ LET tmp == temp_file(procs[p].path)
           o == open_w(fs, tmp, Held(procs))
       IN /\ Exists(fs, tmp) \/ HasFreeInode(fs, Held(procs))
          /\ procs' = [procs EXCEPT ![p] =
                  [@ EXCEPT !.pc = "tmp_write", !.fd = o.fd, !.off = 0]]
          /\ fs' = o.w
    /\ UNCHANGED <<now, uuids, issued, ret>>

\* line 38: json.dump(data, f), one token reaching the disk at a time; the
\* with-block closes the file after the last one
TmpWrite(p) ==
    /\ procs[p].pc = "tmp_write"
    /\ LET toks == json_dump(procs[p].data)
           k == procs[p].off
           last == (k + 1 = Len(toks))
           ps == [procs EXCEPT ![p] =
                    [@ EXCEPT !.off = k + 1,
                              !.pc = IF last THEN "replace" ELSE "tmp_write",
                              !.fd = IF last THEN NoInode ELSE @]]
       IN /\ procs' = ps
          /\ fs' = Reclaim(write_at(fs, procs[p].fd, k, <<toks[k + 1]>>), Held(ps))
    /\ UNCHANGED <<now, uuids, issued, ret>>

\* the except branch without the retry
ExceptGiveUp(p, ps) ==
    [ps EXCEPT ![p] = [@ EXCEPT !.pc = "done", !.fd = NoInode]]

\* lines 43-48: the except branch
Except(p, ps) ==
    IF ps[p].attempt < max_retries - 1
    THEN [ps EXCEPT ![p] = [@ EXCEPT !.pc = "tmp_open", !.fd = NoInode,
                                     !.attempt = @ + 1]]
    ELSE [ps EXCEPT ![p] = [@ EXCEPT !.pc = "done", !.fd = NoInode]]

\* the record a create handler adds: the last of the collection it saves
NewRecord(p) == procs[p].data[Len(procs[p].data)]

SaveRet(p, ok) ==
    [op |-> "save_data", arg |-> <<procs[p].data, procs[p].path>>,
     ok |-> ok, raised |-> FALSE, out |-> <<>>, n |-> procs[p].attempt + 1,
     info |-> None, at |-> 0]

\* a writer that adds its record to the collection the file holds at the
\* moment of the rename
ReplaceMerging(p) ==
    /\ procs[p].pc = "replace"
    /\ procs' = [procs EXCEPT ![p] = [@ EXCEPT !.pc = "done"]]
    /\ fs' = write_file(fs, procs[p].path,
                        json_dump(Append(Stored(fs, procs[p].path), NewRecord(p))))
    /\ ret' = SaveRet(p, TRUE)
    /\ UNCHANGED <<now, uuids, issued>>

\* line 41: os.replace(temp_file, file_path); FileNotFoundError when the
\* temp file is no longer there
Replace(p) ==
    /\ procs[p].pc = "replace"
    /\ LET tmp == temp_file(procs[p].path)
       IN IF Exists(fs, tmp)
          THEN /\ procs' = [procs EXCEPT ![p] = [@ EXCEPT !.pc = "done"]]
               /\ fs' = Reclaim(replace(fs, tmp, procs[p].path), Held(procs))
               /\ ret' = SaveRet(p, TRUE)
          ELSE /\ procs' = Except(p, procs)
               /\ fs' = fs
               /\ ret' = IF procs'[p].pc = "done" THEN SaveRet(p, FALSE) ELSE ret
    /\ UNCHANGED <<now, uuids, issued>>

\* a statement of the try block raises (disk full, permission, ...)
SaveFault(p) ==
    /\ procs[p].pc \in {"tmp_open", "tmp_write", "replace"}
    /\ procs' = Except(p, procs)
    /\ fs' = Reclaim(fs, Held(procs'))
    /\ ret' = IF procs'[p].pc = "done" THEN SaveRet(p, FALSE) ELSE ret
    /\ UNCHANGED <<now, uuids, issued>>

\* the process is killed in the middle of a call
Interrupt(p) ==
    /\ procs[p].pc \notin {"idle", "done", "crashed"}
    /\ procs' = [procs EXCEPT ![p] = [@ EXCEPT !.pc = "crashed", !.fd = NoInode]]
    /\ fs' = Reclaim(fs, Held(procs'))
    /\ UNCHANGED <<now, uuids, issued, ret>>

\* the next request is served
Return(p) ==
    /\ procs[p].pc \in {"done", "crashed"}
    /\ procs[p].calls < MaxCalls
    /\ procs' = [procs EXCEPT ![p] = [@ EXCEPT !.pc = "idle"]]
    /\ UNCHANGED <<fs, now, uuids, issued, ret>>

NoRet == [op |-> "none", arg |-> <<>>, ok |-> FALSE, raised |-> FALSE,
          out |-> <<>>, n |-> 0, info |-> None, at |-> 0]

EmptyFs == [dir |-> [p \in Paths |-> NoInode], disk |-> [i \in Inodes |-> <<>>]]

InitCommon ==
    /\ now = 0
    /\ uuids = 0
    /\ issued = {}
    /\ ret = NoRet

\* one writer at a time saving to the bookings file, which is absent or
\* holds a collection
InitSave ==
    /\ InitCommon
    /\ procs = [p \in {1} |-> Idle]
    /\ \E old \in {<<>>} \cup {<<c>> : c \in SaveInputs} :
          fs = IF old = <<>> THEN EmptyFs
               ELSE write_file(EmptyFs, BOOKINGS_FILE, json_dump(old[1]))

NextSave ==
    \E p \in {1} :
        \/ \E data \in SaveInputs : StartSave(p, data, BOOKINGS_FILE)
        \/ TmpOpen(p)
        \/ TmpWrite(p)
        \/ Replace(p)
        \/ SaveFault(p)
        \/ Interrupt(p)
        \/ Return(p)

SpecSave == InitSave /\ [][NextSave]_vars

\* C1: while and after one writer runs save_data(data, path), interrupted or
\* failing at any statement, the file at path is what it was when the call
\* began or is the complete text of data
SaveNeverTears ==
    \A p \in DOMAIN procs :
        procs[p].op = "save_data" /\ procs[p].pc # "idle" =>
            \/ Snapshot(fs, procs[p].path) = procs[p].prev
            \/ Snapshot(fs, procs[p].path) = <<json_dump(procs[p].data)>>

\* C1 witness: a save was interrupted after the temp file was written and
\* before the rename, with the target still the old collection
SaveInterruptedBeforeRename ==
    \E p \in DOMAIN procs :
        /\ procs[p].op = "save_data" /\ procs[p].pc = "crashed"
        /\ Exists(fs, temp_file(procs[p].path))
        /\ Content(fs, temp_file(procs[p].path)) = json_dump(procs[p].data)
        /\ Snapshot(fs, procs[p].path) = procs[p].prev
        /\ procs[p].prev # <<json_dump(procs[p].data)>>

-----------------------------------------------------------------------------
(* One caller of save_data that is not killed: it keeps taking steps *)

RetryInputs == {<<>>, <<[id |-> "a"]>>}

Running(p) == TmpOpen(p) \/ TmpWrite(p) \/ Replace(p) \/ SaveFault(p)

NextRetry ==
    \E p \in {1} :
        \/ \E data \in RetryInputs : StartSave(p, data, BOOKINGS_FILE)
        \/ Running(p)
        \/ Return(p)

\* the data directory is empty
InitRetry ==
    /\ InitCommon
    /\ procs = [p \in {1} |-> Idle]
    /\ fs = EmptyFs

SpecRetry == InitRetry /\ [][NextRetry]_vars /\ WF_vars(Running(1))

\* C12: a call of save_data returns, after at most 5 attempts and without
\* raising: True at the attempt whose rename went through, with no attempt
\* after it, and False only when the 5th attempt has failed
SaveDataTerminates ==
    /\ [](procs[1].attempt < max_retries)
    /\ [][procs[1].pc # "done" /\ procs'[1].pc = "done" =>
            /\ ret'.op = "save_data" /\ ~ret'.raised
            /\ ret'.n = procs[1].attempt + 1
            /\ ret'.ok <=> fs'.dir[procs[1].path] # fs.dir[procs[1].path]
            /\ ~ret'.ok => ret'.n = max_retries]_vars
    /\ [][procs[1].pc = "done" => fs' = fs]_vars
    /\ (procs[1].pc \in {"tmp_open", "tmp_write", "replace"}) ~> (procs[1].pc = "done")

\* C12 witness: save_data has returned False from its 5th attempt
SaveGaveUp ==
    /\ ret.op = "save_data" /\ ~ret.ok /\ ret.n = max_retries
    /\ procs[1].pc = "done"

-----------------------------------------------------------------------------
(* Records are Python dicts: functions from field names to values *)

EmptyDict == <<>>

\* {**r, **s}, r.update(s)
Merge(r, s) ==
    [k \in DOMAIN r \cup DOMAIN s |-> IF k \in DOMAIN s THEN s[k] ELSE r[k]]

\* r.setdefault(k, v) for every k of s
SetDefaults(r, s) == Merge(s, r)

\* str(uuid.uuid4()): the n-th identifier handed out, assumed collision-free
uuid4(n) == <<"uuid", n>>

Ids == {uuid4(n) : n \in 1..MaxUuids}

\* index of the first record with this id, 0 when there is none
RECURSIVE FirstFrom(_, _, _)
FirstFrom(data, id, i) ==
    IF i > Len(data) THEN 0
    ELSE IF data[i]["id"] = id THEN i
    ELSE FirstFrom(data, id, i + 1)

First(data, id) == FirstFrom(data, id, 1)

Ret(op, arg, ok, raised, out) ==
    [op |-> op, arg |-> arg, ok |-> ok, raised |-> raised, out |-> out, n |-> 0,
     info |-> None, at |-> 0]

\* the clock moves between calls
Tick ==
    /\ now < MaxClock
    /\ now' = now + TickHours
    /\ UNCHANGED <<fs, procs, uuids, issued, ret>>

-----------------------------------------------------------------------------
(* Properties: utils/database.py 51-130, each call as a whole *)

property_required_fields ==
    {"id", "owner_id", "title", "location", "property_type", "price_per_day",
     "capacity"}

\* create_property without the check of lines 61-64
create_property_unchecked(w, property_data, t, fault) ==
    LET l == load_data(w, PROPERTIES_FILE)
        rec == Merge(property_data,
                     [status |-> "pending", verified |-> FALSE,
                      blockchain_registered |-> FALSE,
                      created_at |-> t, updated_at |-> t])
        d == dump_in_place(l.w, Append(l.data, rec), PROPERTIES_FILE, fault)
    IN IF d.raised
       THEN [w |-> d.w, raised |-> TRUE, out |-> <<>>]
       ELSE [w |-> d.w, raised |-> FALSE, out |-> <<rec>>]

create_property(w, property_data, t, fault) ==
    LET l == load_data(w, PROPERTIES_FILE)
        rec == Merge(property_data,
                     [status |-> "pending", verified |-> FALSE,
                      blockchain_registered |-> FALSE,
                      created_at |-> t, updated_at |-> t])
        d == dump_in_place(l.w, Append(l.data, rec), PROPERTIES_FILE, fault)
    IN IF ~(property_required_fields \subseteq DOMAIN property_data)
       THEN [w |-> l.w, raised |-> TRUE, out |-> <<>>]
       ELSE IF d.raised
            THEN [w |-> d.w, raised |-> TRUE, out |-> <<>>]
            ELSE [w |-> d.w, raised |-> FALSE, out |-> <<rec>>]

\* lines 97-105 for one property
property_matches(prop, filters) ==
    \A key \in DOMAIN filters :
        IF key = "price_min" THEN ~(prop["price_per_day"] < filters[key])
        ELSE IF key = "price_max" THEN ~(prop["price_per_day"] > filters[key])
        ELSE ~(key \in DOMAIN prop /\ prop[key] # filters[key])

\* prop['price_per_day'] of a property without a price: KeyError
property_key_error(prop, filters) ==
    /\ DOMAIN filters \cap {"price_min", "price_max"} # {}
    /\ "price_per_day" \notin DOMAIN prop

get_properties(w, filters) ==
    LET l == load_data(w, PROPERTIES_FILE)
    IN IF DOMAIN filters = {}
       THEN [w |-> l.w, raised |-> FALSE, out |-> l.data]
       ELSE IF \E i \in 1..Len(l.data) : property_key_error(l.data[i], filters)
            THEN [w |-> l.w, raised |-> TRUE, out |-> <<>>]
            ELSE [w |-> l.w, raised |-> FALSE,
                  out |-> SelectSeq(l.data,
                                    LAMBDA prop : property_matches(prop, filters))]

\* line 126 for the property found
update_property_merge(prop, property_data) ==
    Merge([id |-> prop["id"], owner_id |-> prop["owner_id"],
           created_at |-> prop["created_at"]],
          property_data)

update_property(w, property_id, property_data, plan) ==
    LET l == load_data(w, PROPERTIES_FILE)
        i == First(l.data, property_id)
        properties == [l.data EXCEPT ![i] = update_property_merge(@, property_data)]
    IN IF i = 0 THEN [w |-> l.w, ok |-> FALSE, saved |-> FALSE]
       ELSE LET sv == save_data(l.w, properties, PROPERTIES_FILE, plan)
            IN [w |-> sv.w, ok |-> TRUE, saved |-> sv.ok]

-----------------------------------------------------------------------------
(* Bookings and reviews: utils/database.py 133-220 *)

booking_required_fields ==
    {"id", "property_id", "guest_id", "owner_id", "check_in", "check_out",
     "status"}

\* create_booking returning what save_data returned
create_booking_checked(w, booking_data, t, plan) ==
    LET l == load_data(w, BOOKINGS_FILE)
        rec == SetDefaults(booking_data,
                           [created_at |-> t, payment_status |-> "pending"])
    IN IF ~(booking_required_fields \subseteq DOMAIN booking_data)
       THEN [w |-> l.w, ok |-> FALSE, saved |-> FALSE, out |-> <<>>]
       ELSE LET sv == save_data(l.w, Append(l.data, rec), BOOKINGS_FILE, plan)
            IN [w |-> sv.w, ok |-> sv.ok, saved |-> sv.ok, out |-> <<rec>>]

create_booking(w, booking_data, t, plan) ==
    LET l == load_data(w, BOOKINGS_FILE)
        rec == SetDefaults(booking_data,
                           [created_at |-> t, payment_status |-> "pending"])
    IN IF ~(booking_required_fields \subseteq DOMAIN booking_data)
       THEN [w |-> l.w, ok |-> FALSE, saved |-> FALSE, out |-> <<>>]
       ELSE LET sv == save_data(l.w, Append(l.data, rec), BOOKINGS_FILE, plan)
            IN [w |-> sv.w, ok |-> TRUE, saved |-> sv.ok, out |-> <<rec>>]

\* lines 162-164 and 213-215 for one record
record_matches(rec, filters) ==
    \A key \in DOMAIN filters :
        ~(key \in DOMAIN rec /\ rec[key] # filters[key])

filter_records(data, filters) ==
    IF DOMAIN filters = {} THEN data
    ELSE SelectSeq(data, LAMBDA rec : record_matches(rec, filters))

get_bookings(w, filters) ==
    LET l == load_data(w, BOOKINGS_FILE)
    IN [w |-> l.w, out |-> filter_records(l.data, filters)]

update_booking_status(w, booking_id, new_status, plan) ==
    LET l == load_data(w, BOOKINGS_FILE)
        i == First(l.data, booking_id)
        bookings == [l.data EXCEPT ![i] = Merge(@, [status |-> new_status])]
    IN IF i = 0 THEN [w |-> l.w, ok |-> FALSE, saved |-> FALSE]
       ELSE LET sv == save_data(l.w, bookings, BOOKINGS_FILE, plan)
            IN [w |-> sv.w, ok |-> TRUE, saved |-> sv.ok]

review_required_fields == {"id", "property_id", "user_id", "rating", "comment"}

create_review(w, review_data, t, plan) ==
    LET l == load_data(w, REVIEWS_FILE)
        rec == SetDefaults(review_data, [created_at |-> t, verified |-> FALSE])
    IN IF ~(review_required_fields \subseteq DOMAIN review_data)
       THEN [w |-> l.w, ok |-> FALSE, saved |-> FALSE, out |-> <<>>]
       ELSE LET sv == save_data(l.w, Append(l.data, rec), REVIEWS_FILE, plan)
            IN [w |-> sv.w, ok |-> TRUE, saved |-> sv.ok, out |-> <<rec>>]

get_reviews(w, filters) ==
    LET l == load_data(w, REVIEWS_FILE)
    IN [w |-> l.w, out |-> filter_records(l.data, filters)]

-----------------------------------------------------------------------------
(* Auth service: utils/auth.py *)

SECRET_KEY == "your-secret-key"

\* hashlib.sha256(password.encode()).hexdigest(): a digest, one per password
hash_password(password) == <<"sha256", password>>

load_users(w) == load_data(w, USERS_FILE)

save_users(w, users, fault) == dump_in_place(w, users, USERS_FILE, fault)

HasEmail(users, email) == \E i \in 1..Len(users) : users[i]["email"] = email

register_user(w, email, password, full_name, user_type, id, t, fault) ==
    LET l == load_users(w)
        new_user == [id |-> id, email |-> email,
                     password_hash |-> hash_password(password),
                     full_name |-> full_name, user_type |-> user_type,
                     kyc_verified |-> PyFalse, created_at |-> t,
                     wallet_address |-> None, profile_image |-> None,
                     kyc_documents |-> <<>>]
        sv == save_users(l.w, Append(l.data, new_user), fault)
    IN IF HasEmail(l.data, email)
       THEN [w |-> l.w, raised |-> FALSE, ok |-> FALSE,
             message |-> "Email already registered"]
       ELSE IF sv.raised
            THEN [w |-> sv.w, raised |-> TRUE, ok |-> FALSE, message |-> None]
            ELSE [w |-> sv.w, raised |-> FALSE, ok |-> TRUE,
                  message |-> "User registered successfully"]

\* jwt.encode(payload, key, algorithm="HS256")
jwt_encode(payload, key) == [payload |-> payload, sig |-> <<"HS256", key, payload>>]

token_hours == 24

\* line 64 comparing the email only
RECURSIVE FirstLoginByEmail(_, _, _, _)
FirstLoginByEmail(users, email, password_hash, i) ==
    IF i > Len(users) THEN 0
    ELSE IF users[i]["email"] = email THEN i
    ELSE FirstLoginByEmail(users, email, password_hash, i + 1)

RECURSIVE FirstLogin(_, _, _, _)
FirstLogin(users, email, password_hash, i) ==
    IF i > Len(users) THEN 0
    ELSE IF users[i]["email"] = email /\ users[i]["password_hash"] = password_hash
         THEN i
         ELSE FirstLogin(users, email, password_hash, i + 1)

verify_user(w, email, password, t) ==
    LET l == load_users(w)
        i == FirstLogin(l.data, email, hash_password(password), 1)
        user == l.data[i]
        payload == [user_id |-> user["id"], email |-> user["email"],
                    exp |-> t + token_hours]
    IN IF i = 0 THEN [w |-> l.w, ok |-> FALSE, out |-> <<>>]
       ELSE [w |-> l.w, ok |-> TRUE, out |-> <<jwt_encode(payload, SECRET_KEY), user>>]

\* jwt.decode(token, key, algorithms=["HS256"]): the signature is checked
\* first, then exp against the clock; at the very second of expiry the
\* installed PyJWT decides (at_expiry is TRUE when it still accepts)
\* jwt.decode with verify_exp off
jwt_decode_no_expiry(token, key, t, at_expiry) ==
    IF token.sig # <<"HS256", key, token.payload>> THEN "InvalidTokenError"
    ELSE "payload"

jwt_decode(token, key, t, at_expiry) ==
    IF token.sig # <<"HS256", key, token.payload>> THEN "InvalidTokenError"
    ELSE IF token.payload.exp < t \/ (token.payload.exp = t /\ ~at_expiry)
         THEN "ExpiredSignatureError"
         ELSE "payload"

verify_token(token, t, at_expiry) ==
    LET d == jwt_decode(token, SECRET_KEY, t, at_expiry)
    IN IF d = "payload"
       THEN [ok |-> TRUE, user_id |-> <<token.payload.user_id>>, info |-> "payload"]
       ELSE IF d = "ExpiredSignatureError"
            THEN [ok |-> FALSE, user_id |-> <<>>, info |-> "Token expired"]
            ELSE [ok |-> FALSE, user_id |-> <<>>, info |-> "Invalid token"]

\* the users with the user of this id changed by f; line 123-126
UpdateFirst(users, user_id, data) ==
    LET i == First(users, user_id)
    IN IF i = 0 THEN users ELSE [users EXCEPT ![i] = Merge(@, data)]

update_kyc_status(w, user_id, verified, fault) ==
    LET l == load_users(w)
        sv == save_users(l.w, UpdateFirst(l.data, user_id, [kyc_verified |-> verified]),
                         fault)
    IN IF First(l.data, user_id) = 0 THEN [w |-> l.w, raised |-> FALSE, ok |-> FALSE]
       ELSE [w |-> sv.w, raised |-> sv.raised, ok |-> ~sv.raised]

upload_kyc_document(w, user_id, document_type, file_path, t, fault) ==
    LET l == load_users(w)
        i == First(l.data, user_id)
        doc == [type |-> document_type, file_path |-> file_path,
                uploaded_at |-> t, verified |-> FALSE]
        docs == IF "kyc_documents" \in DOMAIN l.data[i]
                THEN l.data[i]["kyc_documents"] ELSE <<>>
        sv == save_users(l.w, UpdateFirst(l.data, user_id,
                                          [kyc_documents |-> Append(docs, doc)]),
                         fault)
    IN IF i = 0 THEN [w |-> l.w, raised |-> FALSE, ok |-> FALSE]
       ELSE [w |-> sv.w, raised |-> sv.raised, ok |-> ~sv.raised]

\* update_user_role, update_user_profile, update_user_wallet: the loop, then
\* save_users and return True whether or not a user was found
update_user(w, user_id, data, fault) ==
    LET l == load_users(w)
        sv == save_users(l.w, UpdateFirst(l.data, user_id, data), fault)
    IN [w |-> sv.w, raised |-> sv.raised, ok |-> ~sv.raised]

update_user_role(w, user_id, new_role, fault) ==
    update_user(w, user_id, [user_type |-> new_role], fault)

update_user_profile(w, user_id, profile_data, fault) ==
    update_user(w, user_id, profile_data, fault)

update_user_wallet(w, user_id, wallet_address, fault) ==
    update_user(w, user_id, [wallet_address |-> wallet_address], fault)

get_user_data(w, user_id) ==
    LET l == load_users(w)
        i == First(l.data, user_id)
    IN [w |-> l.w, out |-> IF i = 0 THEN <<>> ELSE <<l.data[i]>>]

-----------------------------------------------------------------------------
(* Verification sessions: video-verification.py 97-138 *)

load_verification_sessions(w) == load_data(w, SESSIONS_FILE)

save_verification_sessions(w, sessions, fault) ==
    dump_in_place(w, sessions, SESSIONS_FILE, fault)

\* the except branch of lines 119-121 turns an exception into None
start_live_verification_session(w, property_id, owner_id, renter_id, id, t, fault) ==
    LET session_data == [id |-> id, property_id |-> property_id,
                         owner_id |-> owner_id, renter_id |-> renter_id,
                         created_at |-> t, status |-> "pending", images |-> <<>>]
        l == load_verification_sessions(w)
        sv == save_verification_sessions(l.w, Append(l.data, session_data), fault)
    IN [w |-> sv.w, out |-> IF sv.raised THEN <<>> ELSE <<id>>]

\* add_verification_image putting the image in front of the list
add_image_in_front(w, session_id, image_data, t, fault) ==
    LET l == load_verification_sessions(w)
        i == First(l.data, session_id)
        sessions == [l.data EXCEPT ![i] =
                        Merge(@, [images |-> <<image_data>> \o @["images"],
                                  last_updated |-> t])]
        sv == save_verification_sessions(l.w, sessions, fault)
    IN IF i = 0 THEN [w |-> l.w, raised |-> FALSE, ok |-> FALSE]
       ELSE [w |-> sv.w, raised |-> sv.raised, ok |-> ~sv.raised]

\* lines 140-151; session['images'].append, first session of this id
add_verification_image(w, session_id, image_data, t, fault) ==
    LET l == load_verification_sessions(w)
        i == First(l.data, session_id)
        sessions == [l.data EXCEPT ![i] =
                        Merge(@, [images |-> Append(@["images"], image_data),
                                  last_updated |-> t])]
        sv == save_verification_sessions(l.w, sessions, fault)
    IN IF i = 0 THEN [w |-> l.w, raised |-> FALSE, ok |-> FALSE]
       ELSE [w |-> sv.w, raised |-> sv.raised, ok |-> ~sv.raised]

\* complete_verification_session emptying the image list
complete_clearing_images(w, session_id, verified, t, fault) ==
    LET l == load_verification_sessions(w)
        i == First(l.data, session_id)
        sessions == [l.data EXCEPT ![i] =
                        Merge(@, [status |-> "completed", verified |-> verified,
                                  completed_at |-> t, images |-> <<>>])]
        sv == save_verification_sessions(l.w, sessions, fault)
    IN IF i = 0 THEN [w |-> l.w, raised |-> FALSE, ok |-> FALSE]
       ELSE [w |-> sv.w, raised |-> sv.raised, ok |-> ~sv.raised]

\* lines 153-165
complete_verification_session(w, session_id, verified, t, fault) ==
    LET l == load_verification_sessions(w)
        i == First(l.data, session_id)
        sessions == [l.data EXCEPT ![i] =
                        Merge(@, [status |-> "completed", verified |-> verified,
                                  completed_at |-> t])]
        sv == save_verification_sessions(l.w, sessions, fault)
    IN IF i = 0 THEN [w |-> l.w, raised |-> FALSE, ok |-> FALSE]
       ELSE [w |-> sv.w, raised |-> sv.raised, ok |-> ~sv.raised]

\* lines 167-175
get_verification_session(w, session_id) ==
    LET l == load_verification_sessions(w)
        i == First(l.data, session_id)
    IN [w |-> l.w, out |-> IF i = 0 THEN <<>> ELSE <<l.data[i]>>]

-----------------------------------------------------------------------------
(* Calls, with the arguments the pages of main-app.py pass *)

UserA == <<"uuid", 101>>
UserB == <<"uuid", 102>>
ListedProperty == <<"uuid", 201>>

Collection(path) == Stored(fs, path)

IdsOf(data) == {data[i]["id"] : i \in 1..Len(data)}

Elems(data) == {data[i] : i \in 1..Len(data)}

UniqueIds(data) ==
    \A i, j \in 1..Len(data) : data[i]["id"] = data[j]["id"] => i = j

\* what save_data answered inside a call that ignores it: ret.info keeps
\* it; None for a call that did not reach save_data
SaveAnswer(reached, r) ==
    IF ~reached THEN None
    ELSE IF r.saved THEN "save_data True" ELSE "save_data False"

\* the faults that can meet a call addressed to id: a call that finds no
\* record writes nothing
PlansFor(path, id) ==
    IF id \in IdsOf(Collection(path)) THEN FaultPlans ELSE {NoFault}

\* the dict built by the add-property form, main-app.py 686-702, id aside
PropertyForms ==
    {[owner_id |-> o, title |-> "Villa", location |-> "Jaipur",
      property_type |-> "House", price_per_day |-> price, capacity |-> 4,
      verified |-> FALSE, blockchain_registered |-> FALSE, status |-> "active",
      created_at |-> now] : o \in {UserA, UserB}, price \in {5000, 6000}}

\* a dict that lacks a required field
PropertyFormNoCapacity ==
    [owner_id |-> UserA, title |-> "Villa", location |-> "Jaipur",
     property_type |-> "House", price_per_day |-> 5000, status |-> "active"]

InPlaceFaults == {"none", "open", "write"}

WriteFaults == {"none", "write"}

CreateProperty ==
    \E form \in PropertyForms \cup {PropertyFormNoCapacity}, fault \in InPlaceFaults :
        /\ uuids < MaxUuids
        /\ LET property_data == Merge(form, [id |-> uuid4(uuids + 1)])
               r == create_property(fs, property_data, now, fault)
           IN /\ fs' = r.w
              /\ ret' = Ret("create_property", <<property_data>>, ~r.raised,
                            r.raised, r.out)
        /\ uuids' = uuids + 1
        /\ UNCHANGED <<procs, now, issued>>

PropertyFilters ==
    {EmptyDict, [status |-> "active"], [status |-> "pending"],
     [owner_id |-> UserA], [price_min |-> 1000, price_max |-> 6000],
     [price_min |-> 6000, price_max |-> 10000]}
    \cup {[id |-> uuid4(1)]}

GetProperties ==
    \E filters \in PropertyFilters :
        /\ LET r == get_properties(fs, filters)
           IN /\ fs' = r.w
              /\ ret' = Ret("get_properties", <<filters>>, ~r.raised, r.raised, r.out)
        /\ UNCHANGED <<procs, now, uuids, issued>>

PropertyUpdates ==
    {[status |-> "active"], [owner_id |-> UserB, created_at |-> now + 1],
     [id |-> uuid4(1)]}

UpdateProperty ==
    \E property_id \in Ids, property_data \in PropertyUpdates :
    \E plan \in PlansFor(PROPERTIES_FILE, property_id) :
        /\ LET r == update_property(fs, property_id, property_data, plan)
           IN /\ fs' = r.w
              /\ ret' = [Ret("update_property", <<property_id, property_data>>,
                             r.ok, FALSE, <<>>)
                           EXCEPT !.info =
                               SaveAnswer(property_id \in
                                              IdsOf(Collection(PROPERTIES_FILE)), r)]
        /\ UNCHANGED <<procs, now, uuids, issued>>

\* the dict built by the booking request, main-app.py 587-597, id aside
BookingForms ==
    {[property_id |-> ListedProperty, guest_id |-> UserA, owner_id |-> o,
      check_in |-> "2024-01-01", check_out |-> "2024-01-03",
      status |-> "pending", payment_status |-> "pending"] : o \in {UserA, UserB}}

BookingFormNoDates ==
    [property_id |-> ListedProperty, guest_id |-> UserA, owner_id |-> UserB,
     status |-> "pending"]

CreateBooking ==
    \E form \in BookingForms \cup {BookingFormNoDates}, plan \in FaultPlans :
        /\ uuids < MaxUuids
        /\ LET booking_data == Merge(form, [id |-> uuid4(uuids + 1)])
               r == create_booking(fs, booking_data, now, plan)
           IN /\ fs' = r.w
              /\ ret' = [Ret("create_booking", <<booking_data>>, r.ok, FALSE, r.out)
                           EXCEPT !.info =
                               SaveAnswer(booking_required_fields \subseteq
                                              DOMAIN booking_data, r)]
        /\ uuids' = uuids + 1
        /\ UNCHANGED <<procs, now, issued>>

BookingStatuses == {"pending", "confirmed", "rejected", "completed", "cancelled"}

BookingFilters ==
    {EmptyDict, [guest_id |-> UserA], [property_owner_id |-> UserB],
     [guest_id |-> UserA, property_id |-> ListedProperty, status |-> "completed"]}
    \cup {[status |-> "pending"], [status |-> "confirmed"]}

GetBookings ==
    \E filters \in BookingFilters :
        /\ LET r == get_bookings(fs, filters)
           IN /\ fs' = r.w
              /\ ret' = Ret("get_bookings", <<filters>>, TRUE, FALSE, r.out)
        /\ UNCHANGED <<procs, now, uuids, issued>>

UpdateBookingStatus ==
    \E booking_id \in Ids, new_status \in BookingStatuses :
    \E plan \in PlansFor(BOOKINGS_FILE, booking_id) :
        /\ LET r == update_booking_status(fs, booking_id, new_status, plan)
           IN /\ fs' = r.w
              /\ ret' = [Ret("update_booking_status", <<booking_id, new_status>>,
                             r.ok, FALSE, <<>>)
                           EXCEPT !.info =
                               SaveAnswer(booking_id \in
                                              IdsOf(Collection(BOOKINGS_FILE)), r)]
        /\ UNCHANGED <<procs, now, uuids, issued>>

\* the dict built by the review form, main-app.py 795-802, id aside
ReviewForms ==
    {[property_id |-> ListedProperty, user_id |-> u, rating |-> 5,
      comment |-> "fine", verified |-> FALSE] : u \in {UserA, UserB}}

ReviewFormNoComment ==
    [property_id |-> ListedProperty, user_id |-> UserA, rating |-> 5]

CreateReview ==
    \E form \in ReviewForms \cup {ReviewFormNoComment}, plan \in FaultPlans :
        /\ uuids < MaxUuids
        /\ LET review_data == Merge(form, [id |-> uuid4(uuids + 1)])
               r == create_review(fs, review_data, now, plan)
           IN /\ fs' = r.w
              /\ ret' = [Ret("create_review", <<review_data>>, r.ok, FALSE, r.out)
                           EXCEPT !.info =
                               SaveAnswer(review_required_fields \subseteq
                                              DOMAIN review_data, r)]
        /\ uuids' = uuids + 1
        /\ UNCHANGED <<procs, now, issued>>

ReviewFilters == {EmptyDict, [property_id |-> ListedProperty], [user_id |-> UserB]}

GetReviews ==
    \E filters \in ReviewFilters :
        /\ LET r == get_reviews(fs, filters)
           IN /\ fs' = r.w
              /\ ret' = Ret("get_reviews", <<filters>>, TRUE, FALSE, r.out)
        /\ UNCHANGED <<procs, now, uuids, issued>>

\* a fresh deployment: the data directory is empty
InitStore ==
    /\ InitCommon
    /\ procs = [p \in {1} |-> Idle]
    /\ fs = EmptyFs

NextProperties ==
    \/ CreateProperty
    \/ GetProperties
    \/ UpdateProperty

SpecProperties == InitStore /\ [][NextProperties]_vars

NextBookings ==
    \/ CreateBooking
    \/ GetBookings
    \/ UpdateBookingStatus

SpecBookings == InitStore /\ [][NextBookings]_vars

NextReviews ==
    \/ CreateReview
    \/ GetReviews

SpecReviews == InitStore /\ [][NextReviews]_vars

-----------------------------------------------------------------------------
(* Calls of the auth service, with the arguments main-app.py passes *)

Emails == {"alice@example.com", "bob@example.com"}

Passwords == {"pw123", "letmein"}

\* main-app.py 129-139: "Renter" / "Property Owner", lowercased, " " -> "_"
FormUserTypes == {"renter", "property_owner"}

RegisterUser ==
    \E email \in Emails, user_type \in FormUserTypes, fault \in InPlaceFaults :
        /\ HasEmail(Collection(USERS_FILE), email) \/ uuids < MaxUuids
        /\ LET r == register_user(fs, email, "pw123", "Alice", user_type,
                                  uuid4(uuids + 1), now, fault)
           IN /\ fs' = r.w
              /\ ret' = [Ret("register_user", <<email, "pw123", "Alice", user_type>>,
                             r.ok, r.raised, <<>>) EXCEPT !.info = r.message]
        /\ uuids' = IF HasEmail(Collection(USERS_FILE), email) THEN uuids ELSE uuids + 1
        /\ UNCHANGED <<procs, now, issued>>

VerifyUser ==
    \E email \in Emails, password \in Passwords :
        /\ Cardinality(issued) < MaxTokens
        /\ LET r == verify_user(fs, email, password, now)
           IN /\ fs' = r.w
              /\ ret' = Ret("verify_user", <<email, password>>, r.ok, FALSE, r.out)
              /\ issued' = IF r.ok
                           THEN issued \cup {[token |-> r.out[1],
                                              user_id |-> r.out[2]["id"],
                                              at |-> now]}
                           ELSE issued
        /\ UNCHANGED <<procs, now, uuids>>

\* what a client can present besides a token it was given: the token with
\* its expiry pushed back, the token signed with another key, and no token
Forged(token) ==
    {[token EXCEPT !.payload.exp = @ + token_hours],
     [token EXCEPT !.sig = <<"HS256", "guess", token.payload>>]}

Garbage == [payload |-> <<>>, sig |-> <<>>]

Presentable ==
    {i.token : i \in issued}
    \cup UNION {Forged(i.token) : i \in issued}
    \cup {Garbage}

VerifyToken ==
    \E token \in Presentable, at_expiry \in BOOLEAN :
        /\ LET r == verify_token(token, now, at_expiry)
           IN ret' = [Ret("verify_token", <<token>>, r.ok, FALSE, r.user_id)
                        EXCEPT !.info = r.info, !.at = now]
        /\ UNCHANGED <<fs, procs, now, uuids, issued>>

\* main-app.py 420-431: the role switch of the profile page
SwitchRoles == {"owner", "renter"}

UpdateUserRole ==
    \E user_id \in Ids, new_role \in SwitchRoles, fault \in WriteFaults :
        /\ LET r == update_user_role(fs, user_id, new_role, fault)
           IN /\ fs' = r.w
              /\ ret' = Ret("update_user_role", <<user_id, new_role>>, r.ok,
                            r.raised, <<>>)
        /\ UNCHANGED <<procs, now, uuids, issued>>

\* the dict of the profile form, main-app.py 441-445, and a dict that names
\* the email, which update_user_profile(user_id, profile_data) takes as well
ProfileForms ==
    {[full_name |-> "Alice B", phone |-> "555", address |-> "Jaipur"],
     [email |-> "alice@example.com"]}

UpdateUserProfile ==
    \E user_id \in Ids, profile_data \in ProfileForms, fault \in WriteFaults :
        /\ LET r == update_user_profile(fs, user_id, profile_data, fault)
           IN /\ fs' = r.w
              /\ ret' = Ret("update_user_profile", <<user_id, profile_data>>, r.ok,
                            r.raised, <<>>)
        /\ UNCHANGED <<procs, now, uuids, issued>>

UpdateUserWallet ==
    \E user_id \in Ids, fault \in WriteFaults :
        /\ LET r == update_user_wallet(fs, user_id, "0xA1", fault)
           IN /\ fs' = r.w
              /\ ret' = Ret("update_user_wallet", <<user_id, "0xA1">>, r.ok,
                            r.raised, <<>>)
        /\ UNCHANGED <<procs, now, uuids, issued>>

\* main-app.py 516: update_kyc_status(user id, 'pending')
UpdateKycStatus ==
    \E user_id \in Ids, fault \in WriteFaults :
        /\ LET r == update_kyc_status(fs, user_id, "pending", fault)
           IN /\ fs' = r.w
              /\ ret' = Ret("update_kyc_status", <<user_id, "pending">>, r.ok,
                            r.raised, <<>>)
        /\ UNCHANGED <<procs, now, uuids, issued>>

GetUserData ==
    \E user_id \in Ids :
        /\ LET r == get_user_data(fs, user_id)
           IN /\ fs' = r.w
              /\ ret' = Ret("get_user_data", <<user_id>>, r.out # <<>>, FALSE, r.out)
        /\ UNCHANGED <<procs, now, uuids, issued>>

NextUsers ==
    \/ RegisterUser
    \/ UpdateUserRole
    \/ UpdateUserProfile
    \/ UpdateUserWallet
    \/ UpdateKycStatus
    \/ GetUserData

SpecUsers == InitStore /\ [][NextUsers]_vars

NextAuth ==
    \/ Tick
    \/ RegisterUser
    \/ VerifyUser
    \/ VerifyToken

SpecAuth == InitStore /\ [][NextAuth]_vars

-----------------------------------------------------------------------------
(* The pages of main-app.py. One browser session: in SpecPages process 1   *)
(* is the Streamlit script of that session and its record is               *)
(* st.session_state (user, auth_token, page), main-app.py 41-51. A step is *)
(* a click (a callback or a form of the login page) or one run of the      *)
(* script, which renders the current page.                                 *)

\* a field that is None holds the empty sequence, a set field a sequence of
\* its one value
SessionStart == [user |-> <<>>, auth_token |-> <<>>, page |-> "home"]

session_state == procs[1]

\* the pages that begin with the check_auth gate
ProtectedPages ==
    {"dashboard", "profile", "kyc_verification", "property_detail",
     "add_property", "live_verification", "write_review"}

\* the branches of main(), lines 842-857: no branch renders profile, wallet
\* or register
Dispatched ==
    {"home", "login", "dashboard", "add_property", "property_detail",
     "live_verification", "kyc_verification", "write_review"}

\* check_auth without the call of verify_token
check_auth_unverified(ss, t, at_expiry) ==
    ss.user # <<>> /\ ss.auth_token # <<>>

check_auth(ss, t, at_expiry) ==
    IF ss.user = <<>> \/ ss.auth_token = <<>> THEN FALSE
    ELSE LET r == verify_token(ss.auth_token[1], t, at_expiry)
         IN r.ok /\ r.user_id = <<ss.user[1]["id"]>>

\* lines 68-71
logout == SessionStart

\* a fresh session of an application in which one user has registered
InitPages ==
    /\ InitCommon
    /\ procs = [p \in {1} |-> SessionStart]
    /\ fs = register_user(EmptyFs, "alice@example.com", "pw123", "Alice", "renter",
                          UserA, 0, "none").w

\* the Sign In tab of the login page, lines 106-120
SignIn ==
    \E email \in Emails, password \in Passwords :
        /\ session_state.page = "login"
        /\ LET r == verify_user(fs, email, password, now)
           IN /\ fs' = r.w
              /\ ret' = [Ret("verify_user", <<email, password>>, r.ok, FALSE, r.out)
                           EXCEPT !.at = now]
              /\ procs' = IF r.ok
                          THEN [procs EXCEPT ![1] =
                                  [user |-> <<r.out[2]>>, auth_token |-> <<r.out[1]>>,
                                   page |-> "dashboard"]]
                          ELSE procs
        /\ UNCHANGED <<now, uuids, issued>>

\* the Logout button of the sidebar, line 822, shown while a user is set
Logout ==
    /\ session_state.user # <<>>
    /\ procs' = [procs EXCEPT ![1] = logout]
    /\ ret' = Ret("logout", <<>>, TRUE, FALSE, <<>>)
    /\ UNCHANGED <<fs, now, uuids, issued>>

\* the buttons that call change_page or set the page outside the protected
\* pages: lines 92-95 and the sidebar, 824-838
SidebarPages(ss) ==
    IF ss.user = <<>> THEN {"login", "register"}
    ELSE {"dashboard", "wallet", "profile", "kyc_verification"}
         \cup (IF ss.user[1]["user_type"] = "owner" THEN {"add_property"} ELSE {})

ChangePage ==
    \E page \in SidebarPages(session_state) :
        /\ page # session_state.page
        /\ procs' = [procs EXCEPT ![1] = [@ EXCEPT !.page = page]]
        /\ ret' = Ret("change_page", <<page>>, TRUE, FALSE, <<>>)
        /\ UNCHANGED <<fs, now, uuids, issued>>

\* what the body of a protected page does to the store once the gate is
\* passed: lines 156, 516, 534 and 773, 697-704, 722
PageBody(page, ss, w, id, t) ==
    CASE page = "dashboard" ->
            [op |-> "get_user_data", w |-> get_user_data(w, ss.user[1]["id"]).w]
      [] page = "kyc_verification" ->
            [op |-> "update_kyc_status",
             w |-> update_kyc_status(w, ss.user[1]["id"], "pending", "none").w]
      [] page \in {"property_detail", "write_review"} ->
            [op |-> "get_properties",
             w |-> get_properties(w, [id |-> ListedProperty]).w]
      [] page = "add_property" ->
            [op |-> "create_property",
             w |-> create_property(w, [id |-> id, owner_id |-> ss.user[1]["id"],
                                       title |-> "Villa", location |-> "Jaipur",
                                       property_type |-> "House",
                                       price_per_day |-> 5000, capacity |-> 4,
                                       status |-> "active"], t, "none").w]
      [] page = "live_verification" ->
            [op |-> "get_verification_session",
             w |-> get_verification_session(w, id).w]

\* one run of the script on a protected page: the gate of lines 148-151 (and
\* 477, 524, 633, 716, 763), then the body, which may set another page
\* (edit_property, line 197, is a page no branch of main() renders)
RenderProtected ==
    \E at_expiry \in BOOLEAN,
       next \in (ProtectedPages \cap Dispatched) \cup {"edit_property"} :
        LET ss == session_state
        IN /\ ss.page \in ProtectedPages \cap Dispatched
           /\ IF check_auth(ss, now, at_expiry)
              THEN LET b == PageBody(ss.page, ss, fs, uuid4(uuids + 1), now)
                   IN /\ ss.page = "add_property" => uuids < MaxUuids
                      /\ fs' = b.w
                      /\ uuids' = IF ss.page = "add_property" THEN uuids + 1 ELSE uuids
                      /\ procs' = [procs EXCEPT ![1] = [@ EXCEPT !.page = next]]
                      /\ ret' = [Ret(b.op, <<ss.page, at_expiry>>, TRUE, FALSE, <<>>)
                                   EXCEPT !.info = "page body"]
              ELSE /\ fs' = fs
                   /\ uuids' = uuids
                   /\ procs' = [procs EXCEPT ![1] = [@ EXCEPT !.page = "login"]]
                   /\ ret' = [Ret("check_auth", <<ss.page, at_expiry>>, FALSE, FALSE,
                                  <<>>) EXCEPT !.at = now]
           /\ UNCHANGED <<now, issued>>

NextPages ==
    \/ Tick
    \/ SignIn
    \/ Logout
    \/ ChangePage
    \/ RenderProtected

SpecPages == InitPages /\ [][NextPages]_vars

-----------------------------------------------------------------------------
(* Calls of the verification sessions *)

\* the record capture_verification_image builds, video-verification.py 77-91
Images == {[id |-> "v1", image_hash |-> "h1", image_path |-> "v1.jpg"],
           [id |-> "v2", image_hash |-> "h2", image_path |-> "v2.jpg"]}

\* the session of this id as stored, <<>> when there is none
SessionOf(data, id) == IF First(data, id) = 0 THEN <<>> ELSE <<data[First(data, id)]>>

StartSession ==
    \E fault \in WriteFaults :
        /\ uuids < MaxUuids
        /\ LET r == start_live_verification_session(fs, ListedProperty, UserB, UserA,
                                                    uuid4(uuids + 1), now, fault)
           IN /\ fs' = r.w
              /\ ret' = Ret("start_live_verification_session",
                            <<ListedProperty, UserB, UserA>>, r.out # <<>>, FALSE, r.out)
        /\ uuids' = uuids + 1
        /\ UNCHANGED <<procs, now, issued>>

AddImage ==
    \E session_id \in Ids, image_data \in Images, fault \in WriteFaults :
        /\ \A i \in 1..Len(Collection(SESSIONS_FILE)) :
              Len(Collection(SESSIONS_FILE)[i]["images"]) < MaxImages
        /\ LET r == add_verification_image(fs, session_id, image_data, now, fault)
           IN /\ fs' = r.w
              /\ ret' = Ret("add_verification_image", <<session_id, image_data>>,
                            r.ok, r.raised, <<>>)
        /\ UNCHANGED <<procs, now, uuids, issued>>

\* ret.info keeps the status the session had when the call was made
CompleteSession ==
    \E session_id \in Ids, verified \in BOOLEAN, fault \in WriteFaults :
        /\ LET r == complete_verification_session(fs, session_id, verified, now, fault)
               before == SessionOf(Collection(SESSIONS_FILE), session_id)
           IN /\ fs' = r.w
              /\ ret' = [Ret("complete_verification_session", <<session_id, verified>>,
                             r.ok, r.raised, <<>>)
                           EXCEPT !.info = IF before = <<>> THEN None
                                           ELSE before[1]["status"]]
        /\ UNCHANGED <<procs, now, uuids, issued>>

GetSession ==
    \E session_id \in Ids :
        /\ LET r == get_verification_session(fs, session_id)
           IN /\ fs' = r.w
              /\ ret' = Ret("get_verification_session", <<session_id>>, r.out # <<>>,
                            FALSE, r.out)
        /\ UNCHANGED <<procs, now, uuids, issued>>

NextSessions ==
    \/ StartSession
    \/ AddImage
    \/ CompleteSession
    \/ GetSession

SpecSessions == InitStore /\ [][NextSessions]_vars

-----------------------------------------------------------------------------
(* The handlers that persist a collection, as processes: the collection is *)
(* loaded and the new one built in memory in one step, then written one    *)
(* system call a step, through save_data or with open(path, 'w').          *)

\* the handler has loaded the collection (leaving w) and holds the new one
Enter(p, op, path, w, data, pc) ==
    /\ procs[p].pc = "idle"
    /\ procs[p].calls < MaxCalls
    /\ procs' = [procs EXCEPT ![p] =
            [@ EXCEPT !.pc = pc, !.op = op, !.path = path, !.data = data,
                      !.attempt = 0, !.calls = @ + 1, !.prev = Snapshot(w, path)]]
    /\ fs' = w

\* utils/database.py 51-76, up to the open of line 77
CallCreateProperty(p) ==
    \E form \in PropertyForms :
        /\ uuids < MaxUuids
        /\ LET property_data == Merge(form, [id |-> uuid4(uuids + 1)])
               whole == create_property(fs, property_data, now, "none")
           IN Enter(p, "create_property", PROPERTIES_FILE,
                    load_data(fs, PROPERTIES_FILE).w,
                    Stored(whole.w, PROPERTIES_FILE), "open")
        /\ uuids' = uuids + 1
        /\ UNCHANGED <<now, issued, ret>>

\* utils/database.py 133-146, up to the call of save_data
CallCreateBooking(p) ==
    \E form \in BookingForms :
        /\ uuids < MaxUuids
        /\ LET booking_data == Merge(form, [id |-> uuid4(uuids + 1)])
               whole == create_booking(fs, booking_data, now, NoFault)
           IN Enter(p, "create_booking", BOOKINGS_FILE,
                    load_data(fs, BOOKINGS_FILE).w,
                    Stored(whole.w, BOOKINGS_FILE), "tmp_open")
        /\ uuids' = uuids + 1
        /\ UNCHANGED <<now, issued, ret>>

\* utils/auth.py 32-54, up to the open of save_users
CallRegisterUser(p) ==
    \E email \in Emails :
        /\ uuids < MaxUuids
        /\ ~HasEmail(Collection(USERS_FILE), email)
        /\ LET whole == register_user(fs, email, "pw123", "Alice", "renter",
                                      uuid4(uuids + 1), now, "none")
           IN Enter(p, "register_user", USERS_FILE, load_users(fs).w,
                    Stored(whole.w, USERS_FILE), "open")
        /\ uuids' = uuids + 1
        /\ UNCHANGED <<now, issued, ret>>

\* video-verification.py 97-117, up to the open of save_verification_sessions
CallStartSession(p) ==
    /\ uuids < MaxUuids
    /\ LET whole == start_live_verification_session(fs, ListedProperty, UserB,
                        UserA, uuid4(uuids + 1), now, "none")
       IN Enter(p, "start_live_verification_session", SESSIONS_FILE,
                load_verification_sessions(fs).w,
                Stored(whole.w, SESSIONS_FILE), "open")
    /\ uuids' = uuids + 1
    /\ UNCHANGED <<now, issued, ret>>

\* with open(path, 'w') as f: the file at path is truncated
OpenInPlace(p) ==
    /\ procs[p].pc = "open"
    /\ LET o == open_w(fs, procs[p].path, Held(procs))
       IN /\ Exists(fs, procs[p].path) \/ HasFreeInode(fs, Held(procs))
          /\ procs' = [procs EXCEPT ![p] =
                  [@ EXCEPT !.pc = "write", !.fd = o.fd, !.off = 0]]
          /\ fs' = o.w
    /\ UNCHANGED <<now, uuids, issued, ret>>

\* json.dump(data, f) into the file itself, one token at a time
WriteInPlace(p) ==
    /\ procs[p].pc = "write"
    /\ LET toks == json_dump(procs[p].data)
           k == procs[p].off
           last == (k + 1 = Len(toks))
           ps == [procs EXCEPT ![p] =
                    [@ EXCEPT !.off = k + 1,
                              !.pc = IF last THEN "done" ELSE "write",
                              !.fd = IF last THEN NoInode ELSE @]]
       IN /\ procs' = ps
          /\ fs' = Reclaim(write_at(fs, procs[p].fd, k, <<toks[k + 1]>>), Held(ps))
    /\ UNCHANGED <<now, uuids, issued, ret>>

NextHandlers ==
    \E p \in {1} :
        \/ CallCreateProperty(p)
        \/ CallCreateBooking(p)
        \/ CallRegisterUser(p)
        \/ CallStartSession(p)
        \/ OpenInPlace(p)
        \/ WriteInPlace(p)
        \/ TmpOpen(p)
        \/ TmpWrite(p)
        \/ Replace(p)
        \/ Interrupt(p)
        \/ Return(p)

SpecHandlers == InitStore /\ [][NextHandlers]_vars

\* C2: when a handler that persists a collection is interrupted, at whatever
\* point, the collection file holds the complete collection it held when the
\* handler had loaded it, or the complete new one
InterruptLeavesCollection ==
    \A p \in DOMAIN procs :
        procs[p].pc = "crashed" =>
            \/ Snapshot(fs, procs[p].path) = procs[p].prev
            \/ Snapshot(fs, procs[p].path) = <<json_dump(procs[p].data)>>

-----------------------------------------------------------------------------
(* Two writers in save_data on the same path, each called once *)

RacePrior == <<[id |-> "a"]>>

InitRace ==
    /\ InitCommon
    /\ procs = [p \in {1, 2} |-> Idle]
    /\ fs = write_file(EmptyFs, BOOKINGS_FILE, json_dump(RacePrior))

NextRace ==
    \E p \in {1, 2} :
        \/ \E data \in SaveInputs : StartSave(p, data, BOOKINGS_FILE)
        \/ TmpOpen(p)
        \/ TmpWrite(p)
        \/ Replace(p)

SpecRace == InitRace /\ [][NextRace]_vars

\* C3: with two writers in save_data on one path, the file at the path is at
\* every moment the complete prior collection or the complete collection of
\* a writer that has been called, and once both have returned it is the
\* collection of the writer whose rename came last
RenameSerializes ==
    /\ Snapshot(fs, BOOKINGS_FILE) \in
          {<<json_dump(RacePrior)>>} \cup
          {<<json_dump(procs[p].data)>> : p \in {q \in DOMAIN procs : procs[q].pc # "idle"}}
    /\ (\A p \in DOMAIN procs : procs[p].pc = "done") /\ ret.op = "save_data" /\ ret.ok =>
          Snapshot(fs, BOOKINGS_FILE) = <<json_dump(ret.arg[1])>>

-----------------------------------------------------------------------------
(* Two create handlers at once, each an independent load-mutate-save cycle *)

InitCreates ==
    /\ InitCommon
    /\ procs = [p \in {1, 2} |-> Idle]
    /\ fs = EmptyFs

NextCreates ==
    \E p \in {1, 2} :
        \/ CallCreateBooking(p)
        \/ CallRegisterUser(p)
        \/ OpenInPlace(p)
        \/ WriteInPlace(p)
        \/ TmpOpen(p)
        \/ TmpWrite(p)
        \/ Replace(p)

SpecCreates == InitCreates /\ [][NextCreates]_vars

-----------------------------------------------------------------------------
(* A reader beside a writer that rewrites the file in place: process 1 is  *)
(* the writer, process 2 calls load_data / load_users, whose read and      *)
(* whose write of the except branch are two steps                          *)

InPlaceFiles == {USERS_FILE, PROPERTIES_FILE, SESSIONS_FILE}

\* database.py 19-21, auth.py 17-19: open(file_path, 'r'), json.load(f)
ReadFile(p, file_path) ==
    /\ Enter(p, "load_data", file_path, fs, Stored(fs, file_path),
             IF Exists(fs, file_path) /\ json_load(Content(fs, file_path)).ok
             THEN "done" ELSE "reset")
    /\ UNCHANGED <<now, uuids, issued, ret>>

\* database.py 22-26, auth.py 20-25: the except branch writes [] to the file
ResetFile(p) ==
    /\ procs[p].pc = "reset"
    /\ Exists(fs, procs[p].path) \/ HasFreeInode(fs, Held(procs))
    /\ LET o == open_w(fs, procs[p].path, Held(procs))
       IN fs' = write_at(o.w, o.fd, 0, json_dump(<<>>))
    /\ procs' = [procs EXCEPT ![p] = [@ EXCEPT !.pc = "done"]]
    /\ UNCHANGED <<now, uuids, issued, ret>>

NextReadRace ==
    \/ CallRegisterUser(1)
    \/ CallCreateProperty(1)
    \/ CallStartSession(1)
    \/ OpenInPlace(1)
    \/ WriteInPlace(1)
    \/ \E file_path \in InPlaceFiles : ReadFile(2, file_path)
    \/ ResetFile(2)

SpecReadRace == InitCreates /\ [][NextReadRace]_vars

-----------------------------------------------------------------------------
(* load_data and load_users on a file in any state the writers leave it in: *)
(* absent, a complete collection, or the torn prefix of one                 *)

Prefixes(text) == {SubSeq(text, 1, k) : k \in 0..(Len(text) - 1)}

FileStates ==
    {<<>>} \cup {<<json_dump(c)>> : c \in SaveInputs}
           \cup {<<t>> : t \in UNION {Prefixes(json_dump(c)) : c \in SaveInputs}}

Put(w, path, st) == IF st = <<>> THEN w ELSE write_file(w, path, st[1])

FileKind(w, path) ==
    IF ~Exists(w, path) THEN "absent"
    ELSE IF WellFormed(Content(w, path)) THEN "valid" ELSE "unparsable"

InitLoad ==
    /\ InitCommon
    /\ procs = [p \in {1} |-> Idle]
    /\ \E a, b \in FileStates :
          fs = Put(Put(EmptyFs, BOOKINGS_FILE, a), USERS_FILE, b)

\* ret.info keeps what the file was when the call was made
LoadData ==
    /\ LET r == load_data(fs, BOOKINGS_FILE)
       IN /\ fs' = r.w
          /\ ret' = [Ret("load_data", <<BOOKINGS_FILE>>, TRUE, FALSE, r.data)
                       EXCEPT !.info = FileKind(fs, BOOKINGS_FILE)]
    /\ UNCHANGED <<procs, now, uuids, issued>>

LoadUsers ==
    /\ LET r == load_users(fs)
       IN /\ fs' = r.w
          /\ ret' = [Ret("load_users", <<USERS_FILE>>, TRUE, FALSE, r.data)
                       EXCEPT !.info = FileKind(fs, USERS_FILE)]
    /\ UNCHANGED <<procs, now, uuids, issued>>

\* the fault plans of a round trip: none, two failed attempts, all five
RoundTripPlans == FaultPlans \cup {FailFirst(2, "replace")}

\* save_data(load_data(path), path) on the bookings file
RoundTrip ==
    \E plan \in RoundTripPlans :
        /\ LET l == load_data(fs, BOOKINGS_FILE)
               sv == save_data(l.w, l.data, BOOKINGS_FILE, plan)
           IN /\ fs' = sv.w
              /\ ret' = [Ret("round_trip", <<BOOKINGS_FILE, plan>>, sv.ok, FALSE, l.data)
                           EXCEPT !.info = FileKind(fs, BOOKINGS_FILE),
                                  !.n = sv.attempts]
        /\ UNCHANGED <<procs, now, uuids, issued>>

NextLoad ==
    \/ LoadData
    \/ LoadUsers
    \/ RoundTrip

SpecLoad == InitLoad /\ [][NextLoad]_vars

\* C13: load_data and load_users return the collection of a file that holds
\* one and leave the file as it is; they return the empty sequence for an
\* absent or unparsable file, and an absent file exists afterwards and holds
\* the empty collection
LoadContract ==
    [][ret'.op \in {"load_data", "load_users"} /\ ret' # ret =>
          LET path == ret'.arg[1]
          IN /\ FileKind(fs, path) = "valid" =>
                   /\ json_dump(ret'.out) = Content(fs, path)
                   /\ fs' = fs
             /\ FileKind(fs, path) # "valid" => ret'.out = <<>>
             /\ FileKind(fs, path) = "absent" =>
                   /\ Exists(fs', path)
                   /\ Content(fs', path) = json_dump(<<>>)
             /\ \A other \in Paths \ {path} : Snapshot(fs', other) = Snapshot(fs, other)]_vars

\* C13 witness: load_data was called on an absent file
LoadedAbsent ==
    /\ ret.op = "load_data" /\ ret.info = "absent" /\ ret.out = <<>>
    /\ Exists(fs, BOOKINGS_FILE)

-----------------------------------------------------------------------------
(* Claims about the record collections *)

CreateOps == {"create_property", "create_booking", "create_review"}

FileOf(op) ==
    CASE op \in {"create_property", "get_properties", "update_property"} -> PROPERTIES_FILE
      [] op \in {"create_booking", "get_bookings", "update_booking_status",
                 "update_booking"} -> BOOKINGS_FILE
      [] op \in {"create_review", "get_reviews"} -> REVIEWS_FILE
      [] OTHER -> USERS_FILE

\* the step is a call of op that returned
Returned(op) == ret'.op = op /\ ~ret'.raised /\ <<fs, uuids, ret>> # <<fs', uuids', ret'>>

\* C4: a record a create call reports as created has an identifier the
\* collection did not hold before the call, identifiers are unique in the
\* collection after it, and the unfiltered list returns the record
CreatedIsNewAndListed ==
    [][\A op \in CreateOps :
          Returned(op) /\ ret'.ok =>
              LET r == ret'.out[1]
              IN /\ r["id"] \notin IdsOf(Collection(FileOf(op)))
                 /\ UniqueIds(Collection(FileOf(op))')
                 /\ r \in Elems(load_data(fs', FileOf(op)).data)]_vars

HasStatus(prop, st) == "status" \in DOMAIN prop /\ prop["status"] = st

\* C5: get_properties({status: "active"}) returns exactly the stored
\* properties whose status is "active", none that has no status field
ActiveFilterIsExact ==
    ret.op = "get_properties" /\ ~ret.raised /\ ret.arg[1] = [status |-> "active"] =>
        ret.out = SelectSeq(Collection(PROPERTIES_FILE),
                            LAMBDA prop : HasStatus(prop, "active"))

\* record i of the collection after an update is the old one with data laid
\* over it, and the others are as they were
MergedAt(old, new, i, data) ==
    /\ Len(new) = Len(old)
    /\ \A k \in DOMAIN data : k \in DOMAIN new[i] /\ new[i][k] = data[k]
    /\ \A k \in DOMAIN old[i] \ DOMAIN data : k \in DOMAIN new[i] /\ new[i][k] = old[i][k]
    /\ \A j \in 1..Len(old) : j # i => new[j] = old[j]

\* the step renamed a new file onto path: the save went through
Renamed(path) == fs'.dir[path] # fs.dir[path]

\* C6: an update of an existing record, when its save goes through, gives
\* the named fields their new values, keeps every other field of the record,
\* and no other record changes
UpdateMerges ==
    [][Returned("update_property") /\ ret'.ok /\ Renamed(PROPERTIES_FILE) =>
          MergedAt(Collection(PROPERTIES_FILE), Collection(PROPERTIES_FILE)',
                   First(Collection(PROPERTIES_FILE), ret'.arg[1]), ret'.arg[2])]_vars

KeepsField(old, new, k) ==
    /\ Len(new) = Len(old)
    /\ \A i \in 1..Len(old) :
          k \in DOMAIN old[i] => k \in DOMAIN new[i] /\ new[i][k] = old[i][k]

\* C7: no update changes a created_at, and update_property changes neither
\* the id nor the owner_id of a property
UpdateKeepsOrigin ==
    [][Returned("update_property") =>
          \A k \in {"id", "owner_id", "created_at"} :
              KeepsField(Collection(PROPERTIES_FILE), Collection(PROPERTIES_FILE)', k)]_vars

-----------------------------------------------------------------------------
(* Claims about the auth service *)

UniqueEmails(users) ==
    \A i, j \in 1..Len(users) : users[i]["email"] = users[j]["email"] => i = j

\* C8: register_user with an email already stored fails with "Email already
\* registered" and changes nothing, and after every call of register_user
\* and of the user updates no two stored users share an email
EmailsStayUnique ==
    [][/\ Returned("register_user") /\ HasEmail(Collection(USERS_FILE), ret'.arg[1]) =>
            /\ ~ret'.ok
            /\ ret'.info = "Email already registered"
            /\ fs' = fs
       /\ UniqueEmails(Collection(USERS_FILE)')]_vars

\* C8 witness: two users are stored and a registration was refused
DuplicateEmailRefused ==
    /\ ret.op = "register_user" /\ ~ret.ok /\ ~ret.raised
    /\ ret.info = "Email already registered"
    /\ Len(Collection(USERS_FILE)) = 2

Matches(user, email, password) ==
    user["email"] = email /\ user["password_hash"] = hash_password(password)

\* C9: verify_user succeeds exactly when a stored user has the email and the
\* hash of the password; token and user returned are that user's; a failure
\* returns neither; the stored users are the same after the call
VerifyUserIsExact ==
    [][Returned("verify_user") =>
          LET users == Collection(USERS_FILE)
              email == ret'.arg[1]
              password == ret'.arg[2]
          IN /\ ret'.ok <=> \E i \in 1..Len(users) : Matches(users[i], email, password)
             /\ ret'.ok =>
                   /\ Len(ret'.out) = 2
                   /\ ret'.out[2] \in Elems(users)
                   /\ Matches(ret'.out[2], email, password)
                   /\ ret'.out[1].payload.user_id = ret'.out[2]["id"]
                   /\ ret'.out[1].payload.email = email
             /\ ~ret'.ok => ret'.out = <<>>
             /\ Collection(USERS_FILE)' = users]_vars

\* C9 witness: with two users stored, a sign-in with the wrong password
\* was refused
WrongPasswordRefused ==
    /\ ret.op = "verify_user" /\ ~ret.ok
    /\ HasEmail(Collection(USERS_FILE), ret.arg[1])
    /\ Len(Collection(USERS_FILE)) = 2

IssuedTokens == {i.token : i \in issued}

\* C10: a token issued at time t is accepted, with the id of the user it was
\* issued to, when presented before t + 24 h, and refused as "Token expired"
\* when presented after it; a token verify_user never issued is refused as
\* "Invalid token"
TokenLifetime ==
    ret.op = "verify_token" =>
        /\ \A i \in issued :
              i.token = ret.arg[1] =>
                  /\ ret.at < i.at + 24 => ret.ok /\ ret.out = <<i.user_id>>
                  /\ ret.at > i.at + 24 =>
                        ~ret.ok /\ ret.out = <<>> /\ ret.info = "Token expired"
        /\ ret.arg[1] \notin IssuedTokens =>
              ~ret.ok /\ ret.out = <<>> /\ ret.info = "Invalid token"

\* C10 witness: an issued token was presented after its 24 hours and refused
ExpiredTokenRefused ==
    /\ ret.op = "verify_token" /\ ~ret.ok /\ ret.info = "Token expired"
    /\ \E i \in issued : i.token = ret.arg[1] /\ ret.at > i.at + 24

-----------------------------------------------------------------------------
(* Claims about the verification sessions *)

\* C11: complete_verification_session(id, True) on a stored session returns
\* success and leaves it completed and verified with the images it had,
\* whether the session was pending or had been completed before
CompleteIsIdempotent ==
    [][Returned("complete_verification_session") /\ ret'.arg[2]
          /\ ret'.arg[1] \in IdsOf(Collection(SESSIONS_FILE)) =>
          LET old == SessionOf(Collection(SESSIONS_FILE), ret'.arg[1])[1]
              new == SessionOf(Collection(SESSIONS_FILE)', ret'.arg[1])
          IN /\ ret'.ok
             /\ new # <<>>
             /\ new[1]["status"] = "completed"
             /\ new[1]["verified"] = TRUE
             /\ new[1]["images"] = old["images"]]_vars

\* C11 witness: a session holding an image was completed a second time
CompletedTwice ==
    /\ ret.op = "complete_verification_session" /\ ret.ok /\ ret.arg[2]
    /\ ret.info = "completed"
    /\ \E i \in 1..Len(Collection(SESSIONS_FILE)) :
          /\ Collection(SESSIONS_FILE)[i]["id"] = ret.arg[1]
          /\ Collection(SESSIONS_FILE)[i]["images"] # <<>>
          /\ Collection(SESSIONS_FILE)[i]["verified"] = TRUE

\* C17: add_verification_image on a stored session appends the image behind
\* the images the session had, leaves its status and every other session as
\* they were; on an unknown id it returns False and changes no session
ImageIsAppended ==
    [][Returned("add_verification_image") =>
          LET old == Collection(SESSIONS_FILE)
              new == Collection(SESSIONS_FILE)'
              i == First(old, ret'.arg[1])
          IN IF i = 0 THEN ~ret'.ok /\ new = old
             ELSE /\ ret'.ok
                  /\ Len(new) = Len(old)
                  /\ new[i]["images"] = Append(old[i]["images"], ret'.arg[2])
                  /\ new[i]["status"] = old[i]["status"]
                  /\ new[i]["id"] = old[i]["id"]
                  /\ \A j \in 1..Len(old) : j # i => new[j] = old[j]]_vars

\* C17 witness: a second image was added to a session and stands behind the
\* first
SecondImageAdded ==
    /\ ret.op = "add_verification_image" /\ ret.ok
    /\ \E i \in 1..Len(Collection(SESSIONS_FILE)) :
          LET images == Collection(SESSIONS_FILE)[i]["images"]
          IN /\ Collection(SESSIONS_FILE)[i]["id"] = ret.arg[1]
             /\ Len(images) = 2
             /\ images[2] = ret.arg[2]
             /\ images[1] # images[2]

\* the status changes of a session the lifecycle allows
Lifecycle ==
    {<<"pending", "active">>, <<"active", "completed">>,
     <<"pending", "cancelled">>, <<"active", "cancelled">>}

\* C18: a session enters the store with status pending and no image, and the
\* status of a stored session changes only along pending, active, completed,
\* or to cancelled from pending or active
StatusFollowsLifecycle ==
    [][LET old == Collection(SESSIONS_FILE)
           new == Collection(SESSIONS_FILE)'
       IN \A j \in 1..Len(new) :
             LET before == SessionOf(old, new[j]["id"])
             IN IF before = <<>>
                THEN new[j]["status"] = "pending" /\ new[j]["images"] = <<>>
                ELSE \/ new[j]["status"] = before[1]["status"]
                     \/ <<before[1]["status"], new[j]["status"]>> \in Lifecycle]_vars

\* C18 witness: a session was started and is stored pending without images
SessionStartedPending ==
    /\ ret.op = "start_live_verification_session" /\ ret.ok
    /\ \E j \in 1..Len(Collection(SESSIONS_FILE)) :
          /\ Collection(SESSIONS_FILE)[j]["id"] = ret.out[1]
          /\ Collection(SESSIONS_FILE)[j]["status"] = "pending"
          /\ Collection(SESSIONS_FILE)[j]["images"] = <<>>

-----------------------------------------------------------------------------
(* Claims about the filters and the status updates *)

InRange(prop, filters) ==
    /\ "price_per_day" \in DOMAIN prop
    /\ "price_min" \in DOMAIN filters => filters["price_min"] <= prop["price_per_day"]
    /\ "price_max" \in DOMAIN filters => prop["price_per_day"] <= filters["price_max"]

\* C14: get_properties with a price range returns, in stored order, exactly
\* the stored properties whose price_per_day lies within the range, bounds
\* included
PriceRangeIsExact ==
    ret.op = "get_properties" /\ DOMAIN ret.arg[1] = {"price_min", "price_max"} =>
        /\ ~ret.raised
        /\ ret.out = SelectSeq(Collection(PROPERTIES_FILE),
                               LAMBDA prop : InRange(prop, ret.arg[1]))

\* C14 witness: a property priced at the lower bound of the range was returned
PriceAtBoundReturned ==
    /\ ret.op = "get_properties" /\ ~ret.raised
    /\ DOMAIN ret.arg[1] = {"price_min", "price_max"}
    /\ \E i \in 1..Len(ret.out) : ret.out[i]["price_per_day"] = ret.arg[1]["price_min"]

\* C15: after update_booking_status(id, s) on a stored booking b,
\* get_bookings({status: s}) includes b with status s; b's other fields and
\* the other bookings are what they were
StatusUpdateShows ==
    [][Returned("update_booking_status")
          /\ ret'.arg[1] \in IdsOf(Collection(BOOKINGS_FILE)) =>
          LET old == Collection(BOOKINGS_FILE)
              new == Collection(BOOKINGS_FILE)'
              i == First(old, ret'.arg[1])
              listed == get_bookings(fs', [status |-> ret'.arg[2]]).out
          IN /\ Merge(old[i], [status |-> ret'.arg[2]]) \in Elems(listed)
             /\ Len(new) = Len(old)
             /\ new[i] = Merge(old[i], [status |-> ret'.arg[2]])
             /\ \A j \in 1..Len(old) : j # i => new[j] = old[j]]_vars

\* C15 witness: a booking whose status was set to confirmed is listed under
\* that status
ConfirmedBookingListed ==
    /\ ret.op = "get_bookings" /\ ret.arg[1] = [status |-> "confirmed"]
    /\ ret.out # <<>>

-----------------------------------------------------------------------------
(* Claims about the identifiers that are not stored *)

UserOperations ==
    {"update_user_role", "update_user_profile", "update_user_wallet",
     "update_kyc_status", "get_user_data"}

\* C16: a user operation addressed to an identifier that is not stored
\* returns the not-found value (False or None) and leaves the users unchanged
NotFoundIsSignalled ==
    [][/\ ret'.op \in UserOperations
       /\ Returned(ret'.op)
       /\ ret'.arg[1] \notin IdsOf(Collection(USERS_FILE))
       => /\ ~ret'.ok
          /\ ret'.out = <<>>
          /\ Collection(USERS_FILE)' = Collection(USERS_FILE)]_vars

\* C16 witness: update_kyc_status on an unknown identifier answers False
UnknownUserRefused ==
    /\ ret.op = "update_kyc_status" /\ ~ret.ok /\ ~ret.raised
    /\ ret.arg[1] \notin IdsOf(Collection(USERS_FILE))

-----------------------------------------------------------------------------
(* Claims about the life of the records *)

\* C19: no operation removes a record: an identifier that is in the stored
\* properties is still in them after every create, update and read whose
\* write did not fail
IdentifiersStay ==
    [][~ret'.raised =>
          IdsOf(Collection(PROPERTIES_FILE)) \subseteq
              IdsOf(Collection(PROPERTIES_FILE)')]_vars

\* C19 witness: two properties are stored and one of them has been updated
UpdatedAmongTwo ==
    /\ ret.op = "update_property" /\ ret.ok
    /\ Len(Collection(PROPERTIES_FILE)) = 2
    /\ ret.arg[1] \in IdsOf(Collection(PROPERTIES_FILE))

\* C20: save_data(load_data(path), path) on a file that holds a collection
\* leaves the stored collection what it was, record for record, and returns
\* True, the rewritten file being the dump of that collection; it returns
\* False only when each of the five attempts raised
RoundTripKeeps ==
    [][/\ ret'.op = "round_trip" /\ <<fs, ret>> # <<fs', ret'>>
       /\ FileKind(fs, ret'.arg[1]) = "valid"
       => LET path == ret'.arg[1]
              plan == ret'.arg[2]
          IN /\ FileKind(fs', path) = "valid"
             /\ Stored(fs', path) = Stored(fs, path)
             /\ Content(fs', path) = Content(fs, path)
             /\ ret'.ok <=> \E a \in 1..max_retries : plan[a] = "none"
             /\ \A other \in Paths \ {path, temp_file(path)} :
                   Snapshot(fs', other) = Snapshot(fs, other)]_vars

\* C20 witness: a file of two records went through the round trip, which
\* returned True at its third attempt
TwoRecordsRoundTripped ==
    /\ ret.op = "round_trip" /\ ret.ok /\ ret.n = 3
    /\ ret.info = "valid" /\ Len(ret.out) = 2
    /\ Stored(fs, BOOKINGS_FILE) = ret.out

-----------------------------------------------------------------------------
(* Claims about the list operations *)

\* the record holds what the filter asks: for every key it lacks the key or
\* holds the value, and its price lies within the bounds asked
Asked(rec, filters) ==
    \A key \in DOMAIN filters :
        IF key = "price_min"
        THEN "price_per_day" \in DOMAIN rec /\ filters[key] <= rec["price_per_day"]
        ELSE IF key = "price_max"
        THEN "price_per_day" \in DOMAIN rec /\ rec["price_per_day"] <= filters[key]
        ELSE key \notin DOMAIN rec \/ rec[key] = filters[key]

\* C21: get_properties returns, in stored order, exactly the stored records
\* that for every filter key lack the key or hold an equal value (a price
\* within the bound for price_min and price_max), and the whole collection
\* for an empty filter
FilterIsExact ==
    ret.op = "get_properties" =>
        /\ ~ret.raised
        /\ ret.out = IF DOMAIN ret.arg[1] = {} THEN Collection(PROPERTIES_FILE)
                     ELSE SelectSeq(Collection(PROPERTIES_FILE),
                                    LAMBDA rec : Asked(rec, ret.arg[1]))

\* C21 witness: a record without a status was returned for a status filter
RecordLackingKeyReturned ==
    /\ ret.op = "get_properties" /\ ~ret.raised
    /\ DOMAIN ret.arg[1] = {"status"}
    /\ \E i \in 1..Len(ret.out) : "status" \notin DOMAIN ret.out[i]

-----------------------------------------------------------------------------
(* Claims about concurrent handlers *)

\* C22: when two creates on one collection have both returned, the persisted
\* collection is the one a single handler saved, and if both had loaded the
\* same collection it holds only one of the two new records: nothing makes
\* the later writer see the earlier one's record
LostUpdate ==
    (\A p \in {1, 2} : procs[p].pc = "done") /\ procs[1].path = procs[2].path =>
        LET c == Stored(fs, procs[1].path)
        IN /\ c \in {procs[1].data, procs[2].data}
           /\ procs[1].prev = procs[2].prev =>
                 Cardinality(IdsOf(c) \cap {NewRecord(1)["id"], NewRecord(2)["id"]}) = 1

\* C22 witness: two create_booking calls have returned, neither had an
\* attempt fail, and the bookings file holds one booking
OneOfTwoBookingsStored ==
    /\ \A p \in {1, 2} :
          /\ procs[p].pc = "done" /\ procs[p].op = "create_booking"
          /\ procs[p].attempt = 0
    /\ ret.op = "save_data" /\ ret.ok
    /\ Len(Stored(fs, BOOKINGS_FILE)) = 1

\* C28: when a reader and a writer that rewrites the file in place have both
\* finished, the persisted collection holds every record the writer wrote
ReaderKeepsWrites ==
    (\A p \in {1, 2} : procs[p].pc = "done") /\ procs[1].path = procs[2].path =>
        Elems(procs[1].data) \subseteq Elems(Stored(fs, procs[1].path))

\* C28 witness: a reader that found the file unparsable and a writer have
\* both finished on the same file
ReaderResetBesideWriter ==
    /\ \A p \in {1, 2} : procs[p].pc = "done"
    /\ procs[1].path = procs[2].path
    /\ procs[2].data = <<>> /\ procs[2].prev # <<json_dump(<<>>)>>
    /\ procs[2].prev # <<>>

-----------------------------------------------------------------------------
(* Claims about the failures *)

IgnoringCallers ==
    {"create_booking", "create_review", "update_property", "update_booking_status"}

RequiredOf(op) ==
    CASE op = "create_property" -> property_required_fields
      [] op = "create_booking" -> booking_required_fields
      [] op = "create_review" -> review_required_fields

-----------------------------------------------------------------------------
(* Claims about the bookings and the users *)

\* the status changes of a booking the lifecycle allows
BookingLifecycle ==
    {<<"pending", "confirmed">>, <<"pending", "rejected">>}
    \cup ({"confirmed", "rejected"} \X {"completed", "cancelled"})

\* C25: a booking enters the store pending, and the status of a stored
\* booking changes only from pending to confirmed or rejected and from
\* these to completed or cancelled
BookingFollowsLifecycle ==
    [][LET old == Collection(BOOKINGS_FILE)
           new == Collection(BOOKINGS_FILE)'
       IN \A j \in 1..Len(new) :
             LET i == First(old, new[j]["id"])
             IN IF i = 0 THEN new[j]["status"] = "pending"
                ELSE \/ new[j]["status"] = old[i]["status"]
                     \/ <<old[i]["status"], new[j]["status"]>> \in BookingLifecycle]_vars

\* C25 witness: a pending booking was accepted and is stored confirmed
BookingAccepted ==
    /\ ret.op = "update_booking_status" /\ ret.ok /\ ret.arg[2] = "confirmed"
    /\ \E j \in 1..Len(Collection(BOOKINGS_FILE)) :
          /\ Collection(BOOKINGS_FILE)[j]["id"] = ret.arg[1]
          /\ Collection(BOOKINGS_FILE)[j]["status"] = "confirmed"

\* main-app.py 160: the dashboard shows the owner tabs
DashboardOwner(user) == user["user_type"] = "property_owner"

\* main-app.py 830: the sidebar shows the owner entries
SidebarOwner(user) == user["user_type"] = "owner"

\* C26: the user_type of every stored user is renter or owner, and the
\* dashboard and the sidebar agree on who is an owner
RolesAreRenterOrOwner ==
    \A i \in 1..Len(Collection(USERS_FILE)) :
        LET user == Collection(USERS_FILE)[i]
        IN /\ user["user_type"] \in {"renter", "owner"}
           /\ DashboardOwner(user) <=> SidebarOwner(user)

\* C26 witness: a user switched to the owner role on the profile page
SwitchedToOwner ==
    /\ ret.op = "update_user_role" /\ ret.ok /\ ret.arg[2] = "owner"
    /\ \E i \in 1..Len(Collection(USERS_FILE)) :
          /\ Collection(USERS_FILE)[i]["id"] = ret.arg[1]
          /\ Collection(USERS_FILE)[i]["user_type"] = "owner"

-----------------------------------------------------------------------------
(* Claims about the defaults of a new property *)

\* the ids get_properties({status: 'active'}) returns from the store w
ListedActive(w) == IdsOf(get_properties(w, [status |-> "active"]).out)

\* C27: create_property stores and returns the record with status pending,
\* verified False and blockchain_registered False whatever the caller
\* supplied, and the property is not returned by
\* get_properties({status: 'active'}) until an update sets its status
CreateAssignsDefaults ==
    [][/\ Returned("create_property") =>
            LET rec == ret'.out[1]
                new == Collection(PROPERTIES_FILE)'
            IN /\ rec["status"] = "pending"
               /\ rec["verified"] = FALSE
               /\ rec["blockchain_registered"] = FALSE
               /\ new # <<>> /\ new[Len(new)] = rec
               /\ rec["id"] \notin ListedActive(fs')
       /\ \A id \in ListedActive(fs') \ ListedActive(fs) :
             /\ ret'.op = "update_property" /\ ret'.arg[1] = id
             /\ "status" \in DOMAIN ret'.arg[2]]_vars

\* C27 witness: a property the form sent as active is stored pending
ActiveStoredPending ==
    /\ ret.op = "create_property" /\ ~ret.raised
    /\ ret.arg[1]["status"] = "active"
    /\ ret.out[1]["status"] = "pending"
    /\ ret.out[1]["id"] \in IdsOf(Collection(PROPERTIES_FILE))

-----------------------------------------------------------------------------
(* Claims about the pages *)

\* C29: the bookings get_bookings({property_owner_id: user}) returns for the
\* owner's Bookings tab are bookings whose owner_id is that user
OwnerSeesOwnBookings ==
    ret.op = "get_bookings" /\ DOMAIN ret.arg[1] = {"property_owner_id"} =>
        \A i \in 1..Len(ret.out) :
            ret.out[i]["owner_id"] = ret.arg[1]["property_owner_id"]

\* C29 witness: the tab's query returned a booking of the owner's property
OwnBookingListed ==
    /\ ret.op = "get_bookings" /\ DOMAIN ret.arg[1] = {"property_owner_id"}
    /\ \E i \in 1..Len(ret.out) :
          ret.out[i]["owner_id"] = ret.arg[1]["property_owner_id"]

\* the session holds a user and a token that verify_token accepts for that
\* user at time t
Authenticated(ss, t) ==
    /\ ss.user # <<>> /\ ss.auth_token # <<>>
    /\ \E at_expiry \in BOOLEAN :
          LET r == verify_token(ss.auth_token[1], t, at_expiry)
          IN r.ok /\ r.user_id = <<ss.user[1]["id"]>>

\* C30: a run of a protected page touches the store only when the session
\* holds a user and a token verify_token accepts for that user; otherwise
\* the page becomes login and the store is untouched; and a session that is
\* not authenticated, as after logout, becomes authenticated only through a
\* successful sign-in
AccessGate ==
    [][/\ session_state.page \in ProtectedPages /\ ret'.info = "page body"
          /\ <<fs, procs, ret>> # <<fs', procs', ret'>>
          => /\ session_state.user # <<>> /\ session_state.auth_token # <<>>
             /\ LET r == verify_token(session_state.auth_token[1], now, ret'.arg[2])
                IN r.ok /\ r.user_id = <<session_state.user[1]["id"]>>
       /\ session_state.page \in ProtectedPages /\ ~Authenticated(session_state, now)
          /\ ret'.op \notin {"logout", "change_page"} /\ <<procs, ret>> # <<procs', ret'>>
          => /\ fs' = fs
             /\ procs'[1].page = "login"
       /\ ret'.op = "logout" /\ ret' # ret => ~Authenticated(procs'[1], now')
       /\ ~Authenticated(session_state, now) /\ Authenticated(procs'[1], now')
          => ret'.op = "verify_user" /\ ret'.ok /\ ret' # ret]_vars

\* C30 witness: a protected page was asked for with a token that had
\* expired, and the session was sent to login with its user still set
ExpiredSessionSentToLogin ==
    /\ ret.op = "check_auth" /\ ~ret.ok
    /\ session_state.page = "login"
    /\ session_state.user # <<>> /\ session_state.auth_token # <<>>
    /\ session_state.auth_token[1].payload.exp < ret.at

====
